---- MODULE Spec2Model ----
(***************************************************************************)
(* Quest board (src/app.py, src/db.py): the quest lifecycle handlers of    *)
(* the Streamlit pages, the storage functions of db.py and the recurrence  *)
(* scheduler process_recurring_quests.                                     *)
(*                                                                         *)
(* Representation.                                                         *)
(*  - A date object (datetime.date) is its day number counted from         *)
(*    2024-01-01, which is a Monday, so date.weekday() is the day number   *)
(*    modulo 7.                                                            *)
(*  - A stored date string "YYYY-MM-DD" is the tuple <<y, m, d>>; None and *)
(*    the empty string, both falsy in Python, are the empty tuple.         *)
(*    strptime turns a tuple into a day number, isoformat a day number     *)
(*    into a tuple.                                                        *)
(*  - recurrence_weekdays, a comma joined string, is the tuple of its      *)
(*    comma separated tokens; None is the empty tuple.                     *)
(*  - The quests table is a function from the ids of its rows to records.  *)
(*  - The comments table is represented by its newest row; the row id is   *)
(*    AUTOINCREMENT, so it is also the number of rows inserted so far.     *)
(*  - result is what the page shows after the handler: the operation, the  *)
(*    quest, the user of the session, the outcome and the EXP displayed.   *)
(*  - logCap is the number of comment rows an exploration stops at; no     *)
(*    handler changes it.                                                  *)
(*  - inflight is, for each browser session, the position of the handler   *)
(*    it is running and the values that handler has read so far.  The      *)
(*    handlers that run without another session in between are single      *)
(*    steps and leave every session idle.                                  *)
(***************************************************************************)
EXTENDS Integers, Sequences, FiniteSets, TLC

VARIABLES quests, nextId, comments, today, result, logCap, inflight

vars == <<quests, nextId, comments, today, result, logCap, inflight>>

-----------------------------------------------------------------------------
(* Bounds of the model *)

MaxQuests == 3

MaxComments == 3

MaxBase == 62

-----------------------------------------------------------------------------
(* Program constants *)

MAX_ACTIVE_QUESTS == 3

BaseYear == 2024

NoDate == <<>>

NoUser == "<None>"

NoId == 0

NoNext == 0 - 1

valid_statuses == {"Backlog", "In Progress", "Review", "Done"}

Users == {"alice"}

\* the browser sessions: each runs the page script in a thread of its own
Sessions == {1, 2}

Idle == [pc |-> "idle"]

NoRun == [s \in Sessions |-> Idle]

-----------------------------------------------------------------------------
(* datetime.date: strptime, isoformat, weekday, replace *)

IsLeap(y) == (y % 4 = 0 /\ y % 100 # 0) \/ y % 400 = 0

DaysInYear(y) == IF IsLeap(y) THEN 366 ELSE 365

DaysInMonth(y, m) ==
    IF m = 2 THEN (IF IsLeap(y) THEN 29 ELSE 28)
    ELSE IF m \in {4, 6, 9, 11} THEN 30 ELSE 31

RECURSIVE DaysBeforeYear(_)
DaysBeforeYear(y) ==
    IF y <= BaseYear THEN 0 ELSE DaysBeforeYear(y - 1) + DaysInYear(y - 1)

RECURSIVE DaysBeforeMonth(_, _)
DaysBeforeMonth(y, m) ==
    IF m <= 1 THEN 0 ELSE DaysBeforeMonth(y, m - 1) + DaysInMonth(y, m - 1)

\* datetime.strptime(s, "%Y-%m-%d").date() of a well formed date string
strptime(s) == DaysBeforeYear(s[1]) + DaysBeforeMonth(s[1], s[2]) + s[3] - 1

RECURSIVE YearOf(_, _)
YearOf(n, y) == IF n < DaysInYear(y) THEN <<y, n>> ELSE YearOf(n - DaysInYear(y), y + 1)

RECURSIVE MonthOf(_, _, _)
MonthOf(n, y, m) ==
    IF n < DaysInMonth(y, m) THEN <<m, n>> ELSE MonthOf(n - DaysInMonth(y, m), y, m + 1)

\* date.isoformat(), also date.strftime("%Y-%m-%d")
isoformat(n) ==
    LET yr == YearOf(n, BaseYear)
        mo == MonthOf(yr[2], yr[1], 1)
    IN  <<yr[1], mo[1], mo[2] + 1>>

\* date.weekday(), Monday = 0
weekday(n) == n % 7

-----------------------------------------------------------------------------
(* Recurrence planner: the next_due computation of process_recurring_quests *)

Digits == {"0", "1", "2", "3", "4", "5", "6", "7", "8", "9"}

\* str.isdigit() of a stripped token (tokens of the model have one character
\* at most, apart from the non-numeric ones)
isdigit(tok) == tok \in Digits

\* int(tok) of a token that passed isdigit
int(tok) ==
    CASE tok = "0" -> 0 [] tok = "1" -> 1 [] tok = "2" -> 2 [] tok = "3" -> 3
      [] tok = "4" -> 4 [] tok = "5" -> 5 [] tok = "6" -> 6 [] tok = "7" -> 7
      [] tok = "8" -> 8 [] tok = "9" -> 9

\* ParseWeekdays with a token that is not a number read as weekday 0
ParseWeekdaysDefaultZero(toks) ==
    {IF isdigit(toks[i]) THEN int(toks[i]) ELSE 0 : i \in 1..Len(toks)}

\* [int(d.strip()) for d in recurrence_weekdays.split(",") if d.strip().isdigit()]
\* the membership test of the scan only needs the set of the list's values
ParseWeekdays(toks) ==
    {int(toks[i]) : i \in {j \in 1..Len(toks) : isdigit(toks[j])}}

\* for _ in range(7): the first of the 7 dates from search_date whose weekday
\* is in weekdays, None when there is none
RECURSIVE ScanWeek(_, _, _)
ScanWeek(search_date, weekdays, k) ==
    IF k = 0 THEN NoNext
    ELSE IF weekday(search_date) \in weekdays THEN search_date
    ELSE ScanWeek(search_date + 1, weekdays, k - 1)

\* NextDueWeekly with the scan started on base_date itself
NextDueWeeklyFromBase(recurrence_weekdays, base_date) ==
    IF recurrence_weekdays # <<>> THEN
        LET weekdays == ParseWeekdays(recurrence_weekdays) IN
        IF weekdays # {} THEN
            LET found == ScanWeek(base_date, weekdays, 7) IN
            IF found = NoNext THEN base_date + 7 ELSE found
        ELSE base_date + 7
    ELSE base_date + 7

NextDueWeekly(recurrence_weekdays, base_date) ==
    IF recurrence_weekdays # <<>> THEN
        LET weekdays == ParseWeekdays(recurrence_weekdays) IN
        IF weekdays # {} THEN
            LET found == ScanWeek(base_date + 1, weekdays, 7) IN
            IF found = NoNext THEN base_date + 7 ELSE found
        ELSE base_date + 7
    ELSE base_date + 7

\* NextDueMonthly with the day clamped to 30
NextDueMonthlyDay30(base_date) ==
    LET b     == isoformat(base_date)
        month == IF b[2] + 1 > 12 THEN 1 ELSE b[2] + 1
        year  == IF b[2] + 1 > 12 THEN b[1] + 1 ELSE b[1]
        day   == IF b[3] < 30 THEN b[3] ELSE 30
    IN  strptime(<<year, month, day>>)

NextDueMonthly(base_date) ==
    LET b     == isoformat(base_date)
        month == IF b[2] + 1 > 12 THEN 1 ELSE b[2] + 1
        year  == IF b[2] + 1 > 12 THEN b[1] + 1 ELSE b[1]
        day   == IF b[3] < 28 THEN b[3] ELSE 28
    IN  strptime(<<year, month, day>>)

\* NextDue with timedelta(weeks=1) for the daily rule
NextDueDailyByWeek(recurrence_type, recurrence_weekdays, base_date) ==
    CASE recurrence_type = "daily"   -> base_date + 7
      [] recurrence_type = "weekly"  -> NextDueWeekly(recurrence_weekdays, base_date)
      [] recurrence_type = "monthly" -> NextDueMonthly(base_date)
      [] OTHER -> NoNext

NextDue(recurrence_type, recurrence_weekdays, base_date) ==
    CASE recurrence_type = "daily"   -> base_date + 1
      [] recurrence_type = "weekly"  -> NextDueWeekly(recurrence_weekdays, base_date)
      [] recurrence_type = "monthly" -> NextDueMonthly(base_date)
      [] OTHER -> NoNext

-----------------------------------------------------------------------------
(* db.py: storage functions.  qs is the quests table, nid the next row id *)

\* str.strip() on the strings of the model
strip(s) == CASE s = " " -> "" [] s = " Quest " -> "Quest" [] OTHER -> s

\* create_quest with the two tests made on the strings as given, not stripped
create_quest_unstripped(qs, nid, title, description, priority, due_date, creator, estimated_minutes, recurrence_type, recurrence_end_date, parent_quest_id, recurrence_weekdays) ==
    IF title = "" THEN
        [quests |-> qs, nextId |-> nid, id |-> NoId, raised |-> TRUE]
    ELSE IF creator = "" THEN
        [quests |-> qs, nextId |-> nid, id |-> NoId, raised |-> TRUE]
    ELSE
        [quests |-> [i \in DOMAIN qs \cup {nid} |->
                        IF i = nid THEN
                            [title |-> strip(title),
                             description |-> description,
                             status |-> "Backlog",
                             priority |-> priority,
                             due_date |-> due_date,
                             estimated_minutes |-> estimated_minutes,
                             assignee |-> NoUser,
                             creator |-> strip(creator),
                             recurrence_type |-> recurrence_type,
                             recurrence_end_date |-> recurrence_end_date,
                             parent_quest_id |-> parent_quest_id,
                             recurrence_weekdays |-> recurrence_weekdays]
                        ELSE qs[i]],
         nextId |-> nid + 1, id |-> nid, raised |-> FALSE]

\* INSERT INTO quests: status and assignee take the column defaults
create_quest(qs, nid, title, description, priority, due_date, creator, estimated_minutes, recurrence_type, recurrence_end_date, parent_quest_id, recurrence_weekdays) ==
    IF title = "" \/ strip(title) = "" THEN
        [quests |-> qs, nextId |-> nid, id |-> NoId, raised |-> TRUE]
    ELSE IF creator = "" \/ strip(creator) = "" THEN
        [quests |-> qs, nextId |-> nid, id |-> NoId, raised |-> TRUE]
    ELSE
        [quests |-> [i \in DOMAIN qs \cup {nid} |->
                        IF i = nid THEN
                            [title |-> strip(title),
                             description |-> description,
                             status |-> "Backlog",
                             priority |-> priority,
                             due_date |-> due_date,
                             estimated_minutes |-> estimated_minutes,
                             assignee |-> NoUser,
                             creator |-> strip(creator),
                             recurrence_type |-> recurrence_type,
                             recurrence_end_date |-> recurrence_end_date,
                             parent_quest_id |-> parent_quest_id,
                             recurrence_weekdays |-> recurrence_weekdays]
                        ELSE qs[i]],
         nextId |-> nid + 1, id |-> nid, raised |-> FALSE]

allowed_fields ==
    {"title", "description", "status", "priority", "due_date", "assignee",
     "estimated_minutes", "recurrence_type", "recurrence_end_date",
     "recurrence_weekdays"}

\* update_quest with the WHERE clause left out: every row is written
update_quest_every_row(qs, quest_id, kwargs) ==
    LET updates == DOMAIN kwargs \cap allowed_fields IN
    IF updates = {} \/ quest_id \notin DOMAIN qs THEN qs
    ELSE [i \in DOMAIN qs |->
             [f \in DOMAIN qs[i] |->
                 IF f \in updates THEN kwargs[f] ELSE qs[i][f]]]

\* UPDATE quests SET ... WHERE id = ?  (kwargs is a record of the new values)
update_quest(qs, quest_id, kwargs) ==
    LET updates == DOMAIN kwargs \cap allowed_fields IN
    IF updates = {} \/ quest_id \notin DOMAIN qs THEN qs
    ELSE [qs EXCEPT ![quest_id] =
             [f \in DOMAIN qs[quest_id] |->
                 IF f \in updates THEN kwargs[f] ELSE qs[quest_id][f]]]

\* assign_quest that also puts the quest in progress
assign_quest_starts(qs, quest_id, assignee) ==
    update_quest(qs, quest_id,
                 [assignee |-> IF assignee # "" THEN assignee ELSE NoUser,
                  status |-> "In Progress"])

assign_quest(qs, quest_id, assignee) ==
    update_quest(qs, quest_id,
                 [assignee |-> IF assignee # "" THEN assignee ELSE NoUser])

\* change_status raises ValueError for a status outside valid_statuses
change_status_raises(status) == status \notin valid_statuses

change_status(qs, quest_id, status) ==
    IF change_status_raises(status) THEN qs
    ELSE update_quest(qs, quest_id, [status |-> status])

delete_quest(qs, quest_id) == [i \in DOMAIN qs \ {quest_id} |-> qs[i]]

\* INSERT INTO comments: the new newest row
add_comment(cs, quest_id, user, content, log_type) ==
    IF content = <<>> THEN cs
    ELSE IF user = "" /\ log_type = "user" THEN cs
    ELSE [id |-> cs.id + 1, quest_id |-> quest_id, user |-> user,
          content |-> content, log_type |-> log_type]

\* app.py
get_active_quest_count(qs, username) ==
    Cardinality({i \in DOMAIN qs :
                    qs[i].assignee = username /\ qs[i].status = "In Progress"})

\* calc_exp with the time bonus rounded to the nearest ten minutes
calc_exp_rounded(priority, estimated_minutes) ==
    LET base_exp   == priority * 20
        time_bonus == (estimated_minutes + 5) \div 10
    IN  base_exp + time_bonus

calc_exp(priority, estimated_minutes) ==
    LET base_exp   == priority * 20
        time_bonus == estimated_minutes \div 10
    IN  base_exp + time_bonus

-----------------------------------------------------------------------------
(* db.py: process_recurring_quests *)

\* SELECT * FROM quests WHERE status = 'Done' AND recurrence_type != 'none'
RecurringDone(qs) ==
    {i \in DOMAIN qs : qs[i].status = "Done" /\ qs[i].recurrence_type # "none"}

\* SELECT COUNT(*) FROM quests WHERE parent_quest_id = ? AND due_date = ?
CountOccurrences(qs, parent_id, due_date) ==
    Cardinality({i \in DOMAIN qs :
                    qs[i].parent_quest_id = parent_id /\ qs[i].due_date = due_date})

\* ProcessOne with the new row copying the status of its source
ProcessOneCopiesStatus(db, id, quest, tday) ==
    LET next_due  == NextDue(quest.recurrence_type, quest.recurrence_weekdays,
                             IF quest.due_date # NoDate THEN strptime(quest.due_date)
                             ELSE tday)
        parent_id == IF quest.parent_quest_id # NoId THEN quest.parent_quest_id
                     ELSE id
    IN
    IF quest.recurrence_end_date # NoDate /\ tday > strptime(quest.recurrence_end_date)
    THEN db
    ELSE IF next_due = NoNext THEN db
    ELSE IF quest.recurrence_end_date # NoDate
            /\ next_due > strptime(quest.recurrence_end_date)
    THEN [db EXCEPT !.quests = update_quest(@, id, [recurrence_type |-> "none"])]
    ELSE IF CountOccurrences(db.quests, parent_id, isoformat(next_due)) > 0 THEN db
    ELSE
    LET made == create_quest(db.quests, db.nextId, quest.title,
                             quest.description, quest.priority,
                             isoformat(next_due), quest.creator,
                             quest.estimated_minutes, quest.recurrence_type,
                             quest.recurrence_end_date, parent_id,
                             quest.recurrence_weekdays)
    IN
    IF made.raised THEN [db EXCEPT !.raised = TRUE]
    ELSE [quests |-> update_quest(
                        update_quest(made.quests, made.id, [status |-> quest.status]),
                        id, [recurrence_type |-> "none"]),
          nextId |-> made.nextId, raised |-> FALSE]

\* The iteration with one of its steps changed: the base date always the day
\* of the run, the parent always the completed quest itself, or the rule of
\* the completed quest kept after the successor is created.
ProcessOneVariant(db, id, quest, tday, base_today, chained, keeps_rule) ==
    LET recurrence_type     == quest.recurrence_type
        recurrence_end_date == quest.recurrence_end_date
        recurrence_weekdays == quest.recurrence_weekdays
    IN
    IF recurrence_end_date # NoDate /\ tday > strptime(recurrence_end_date)
    THEN db
    ELSE
    LET base_date == IF quest.due_date # NoDate /\ ~base_today
                     THEN strptime(quest.due_date) ELSE tday
        next_due  == NextDue(recurrence_type, recurrence_weekdays, base_date)
    IN
    IF next_due = NoNext THEN db
    ELSE IF recurrence_end_date # NoDate /\ next_due > strptime(recurrence_end_date)
    THEN [db EXCEPT !.quests = update_quest(@, id, [recurrence_type |-> "none"])]
    ELSE
    LET parent_id == IF quest.parent_quest_id # NoId /\ ~chained
                     THEN quest.parent_quest_id ELSE id
    IN
    IF CountOccurrences(db.quests, parent_id, isoformat(next_due)) > 0 THEN db
    ELSE
    LET made == create_quest(db.quests, db.nextId, quest.title,
                             quest.description, quest.priority,
                             isoformat(next_due), quest.creator,
                             quest.estimated_minutes, recurrence_type,
                             recurrence_end_date, parent_id,
                             recurrence_weekdays)
    IN
    IF made.raised THEN [db EXCEPT !.raised = TRUE]
    ELSE [quests |-> IF keeps_rule THEN made.quests
                     ELSE update_quest(made.quests, id, [recurrence_type |-> "none"]),
          nextId |-> made.nextId, raised |-> FALSE]

\* ProcessOne with the rule left on the completed quest
ProcessOneKeepsRule(db, id, quest, tday) ==
    ProcessOneVariant(db, id, quest, tday, FALSE, FALSE, TRUE)

\* ProcessOne with parent_id = quest["id"]
ProcessOneChained(db, id, quest, tday) ==
    ProcessOneVariant(db, id, quest, tday, FALSE, TRUE, FALSE)

\* ProcessOne with base_date = today whatever the due date
ProcessOneBaseToday(db, id, quest, tday) ==
    ProcessOneVariant(db, id, quest, tday, TRUE, FALSE, FALSE)

\* ProcessOne with the WHERE clause of the UPDATE that follows create_quest
\* left out
ProcessOneClearsEveryRow(db, id, quest, tday) ==
    LET kept == ProcessOneVariant(db, id, quest, tday, FALSE, FALSE, TRUE) IN
    IF kept.nextId = db.nextId THEN kept
    ELSE [kept EXCEPT !.quests =
             update_quest_every_row(@, id, [recurrence_type |-> "none"])]

\* One iteration of the loop: quest is the row as fetched at the start of
\* the run, db the storage as the earlier iterations left it.
ProcessOne(db, id, quest, tday) ==
    LET recurrence_type     == quest.recurrence_type
        recurrence_end_date == quest.recurrence_end_date
        recurrence_weekdays == quest.recurrence_weekdays
    IN
    IF recurrence_end_date # NoDate /\ tday > strptime(recurrence_end_date)
    THEN db
    ELSE
    LET base_date == IF quest.due_date # NoDate THEN strptime(quest.due_date)
                     ELSE tday
        next_due  == NextDue(recurrence_type, recurrence_weekdays, base_date)
    IN
    IF next_due = NoNext THEN db
    ELSE IF recurrence_end_date # NoDate /\ next_due > strptime(recurrence_end_date)
    THEN [db EXCEPT !.quests = update_quest(@, id, [recurrence_type |-> "none"])]
    ELSE
    LET parent_id == IF quest.parent_quest_id # NoId THEN quest.parent_quest_id
                     ELSE id
    IN
    IF CountOccurrences(db.quests, parent_id, isoformat(next_due)) > 0 THEN db
    ELSE
    LET made == create_quest(db.quests, db.nextId, quest.title,
                             quest.description, quest.priority,
                             isoformat(next_due), quest.creator,
                             quest.estimated_minutes, recurrence_type,
                             recurrence_end_date, parent_id,
                             recurrence_weekdays)
    IN
    IF made.raised THEN [db EXCEPT !.raised = TRUE]
    ELSE [quests |-> update_quest(made.quests, id, [recurrence_type |-> "none"]),
          nextId |-> made.nextId, raised |-> FALSE]

\* for quest in recurring_quests, in the order the rows were returned; an
\* exception leaves the loop
RECURSIVE ProcessList(_, _, _, _)
ProcessList(db, snap, order, tday) ==
    IF order = <<>> \/ db.raised THEN db
    ELSE ProcessList(ProcessOne(db, Head(order), snap[Head(order)], tday),
                     snap, Tail(order), tday)

\* The query has no ORDER BY: the rows come in an order the backend chooses
Orders(S) ==
    {o \in [1..Cardinality(S) -> S] : \A i, j \in DOMAIN o : i # j => o[i] # o[j]}

process_recurring_quests(qs, nid, tday, order) ==
    ProcessList([quests |-> qs, nextId |-> nid, raised |-> FALSE], qs, order, tday)

-----------------------------------------------------------------------------
(* Inputs of the handlers *)

\* the create form as filled in: a plain quest without due date, or a daily
\* quest due today (st.date_input(..., min_value=date.today()))
QuestForms ==
    {[title |-> "Quest", priority |-> 3, estimated_minutes |-> 30,
      due_date |-> NoDate, recurrence_type |-> "none",
      recurrence_end_date |-> NoDate, selected_weekdays |-> <<>>],
     [title |-> "Quest", priority |-> 3, estimated_minutes |-> 30,
      due_date |-> isoformat(today), recurrence_type |-> "daily",
      recurrence_end_date |-> NoDate, selected_weekdays |-> <<>>]}

\* the date input of the edit form has no lower limit
EditDates == {isoformat(today), isoformat(today + 1)}

\* the text of the assignee input
AssigneeInputs == {"bob", ""}

\* the placeholder shown for a quest without assignee
Unassigned == "unassigned"

Outcome(op, id, user, outcome, exp) ==
    [op |-> op, id |-> id, user |-> user, outcome |-> outcome, exp |-> exp]

NoComment ==
    [id |-> 0, quest_id |-> NoId, user |-> "", content |-> <<>>, log_type |-> ""]

CanLog == comments.id < logCap

-----------------------------------------------------------------------------
(* Handlers of app.py, one action per button *)

\* create form: "クエストを発行"
CreateQuest(user, form) ==
    /\ nextId <= MaxQuests
    /\ IF strip(form.title) = "" THEN
           /\ result' = Outcome("create", NoId, user, "title required", 0)
           /\ UNCHANGED <<quests, nextId>>
       ELSE IF form.recurrence_type = "weekly" /\ form.selected_weekdays = <<>> THEN
           /\ result' = Outcome("create", NoId, user, "weekday required", 0)
           /\ UNCHANGED <<quests, nextId>>
       ELSE
           LET made == create_quest(quests, nextId, form.title, "", form.priority,
                                    form.due_date, user, form.estimated_minutes,
                                    form.recurrence_type, form.recurrence_end_date,
                                    NoId, form.selected_weekdays)
           IN  /\ quests' = made.quests
               /\ nextId' = made.nextId
               /\ result' = Outcome("create", made.id, user,
                                    IF made.raised THEN "error" ELSE "ok", 0)
    /\ UNCHANGED <<comments, today, logCap, inflight>>

\* Accept with the limit compared by > where the code has >=
AcceptOffByOne(op, user, id, content) ==
    LET current_active == get_active_quest_count(quests, user) IN
    IF current_active > MAX_ACTIVE_QUESTS THEN
        /\ result' = Outcome(op, id, user, "limit", 0)
        /\ UNCHANGED <<quests, comments>>
    ELSE
        /\ CanLog
        /\ quests' = change_status(assign_quest(quests, id, user), id, "In Progress")
        /\ comments' = add_comment(comments, id, "System", content, "system")
        /\ result' = Outcome(op, id, user, "ok", 0)

\* the accept steps shared by the board card and the detail page
Accept(op, user, id, content) ==
    LET current_active == get_active_quest_count(quests, user) IN
    IF current_active >= MAX_ACTIVE_QUESTS THEN
        /\ result' = Outcome(op, id, user, "limit", 0)
        /\ UNCHANGED <<quests, comments>>
    ELSE
        /\ CanLog
        /\ quests' = change_status(assign_quest(quests, id, user), id, "In Progress")
        /\ comments' = add_comment(comments, id, "System", content, "system")
        /\ result' = Outcome(op, id, user, "ok", 0)

\* render_quest_card: the accept button, shown for a Backlog quest
BoardAccept(user, id) ==
    /\ id \in DOMAIN quests
    /\ quests[id].status = "Backlog"
    /\ Accept("accept", user, id, <<"accepted">>)
    /\ UNCHANGED <<nextId, today, logCap, inflight>>

\* BoardComplete with the button also shown for the user's finished quests
BoardCompleteAlsoDone(user, id) ==
    /\ id \in DOMAIN quests
    /\ quests[id].status \in {"In Progress", "Done"}
    /\ quests[id].assignee = user
    /\ CanLog
    /\ LET changed == change_status(quests, id, "Done") IN
       \E order \in Orders(RecurringDone(changed)) :
          LET db == process_recurring_quests(changed, nextId, today, order) IN
          /\ db.nextId = nextId \/ db.nextId <= MaxQuests + 1
          /\ quests' = db.quests
          /\ nextId' = db.nextId
          /\ result' = Outcome("complete", id, user,
                               IF db.raised THEN "error" ELSE "ok",
                               calc_exp(quests[id].priority,
                                        quests[id].estimated_minutes))
    /\ comments' = add_comment(comments, id, "System", <<"completed">>, "system")
    /\ UNCHANGED <<today, logCap, inflight>>

\* render_quest_card: the complete button, shown for the user's own quest
\* in progress
BoardComplete(user, id) ==
    /\ id \in DOMAIN quests
    /\ quests[id].status = "In Progress"
    /\ quests[id].assignee = user
    /\ CanLog
    /\ LET changed == change_status(quests, id, "Done") IN
       \E order \in Orders(RecurringDone(changed)) :
          LET db == process_recurring_quests(changed, nextId, today, order) IN
          /\ db.nextId = nextId \/ db.nextId <= MaxQuests + 1
          /\ quests' = db.quests
          /\ nextId' = db.nextId
          /\ result' = Outcome("complete", id, user,
                               IF db.raised THEN "error" ELSE "ok",
                               calc_exp(quests[id].priority,
                                        quests[id].estimated_minutes))
    /\ comments' = add_comment(comments, id, "System", <<"completed">>, "system")
    /\ UNCHANGED <<today, logCap, inflight>>

\* detail page: "このクエストを受注"
DetailAccept(user, id) ==
    /\ id \in DOMAIN quests
    /\ Accept("detail accept", user, id, <<"accepted from detail">>)
    /\ UNCHANGED <<nextId, today, logCap, inflight>>

\* detail page: "ステータス更新"
DetailSetStatus(user, id, new_status) ==
    /\ id \in DOMAIN quests
    /\ LET old_status == quests[id].status IN
       IF new_status # old_status THEN
           /\ CanLog
           /\ quests' = change_status(quests, id, new_status)
           /\ comments' = add_comment(comments, id, "System",
                                      <<"status", old_status, new_status>>, "system")
           /\ result' = Outcome("status", id, user, "ok",
                                IF new_status = "Done" /\ old_status # "Done"
                                THEN calc_exp(quests[id].priority,
                                              quests[id].estimated_minutes)
                                ELSE 0)
       ELSE
           /\ result' = Outcome("status", id, user, "same", 0)
           /\ UNCHANGED <<quests, comments>>
    /\ UNCHANGED <<nextId, today, logCap, inflight>>

\* detail page: "担当者更新"
DetailReassign(user, id, new_assignee) ==
    /\ id \in DOMAIN quests
    /\ LET old_assignee == IF quests[id].assignee # NoUser THEN quests[id].assignee
                           ELSE Unassigned
       IN
       IF new_assignee # old_assignee THEN
           /\ CanLog
           /\ quests' = assign_quest(quests, id, new_assignee)
           /\ comments' = add_comment(comments, id, "System",
                                      <<"assignee", old_assignee, new_assignee>>,
                                      "system")
           /\ result' = Outcome("assignee", id, user, "ok", 0)
       ELSE
           /\ result' = Outcome("assignee", id, user, "same", 0)
           /\ UNCHANGED <<quests, comments>>
    /\ UNCHANGED <<nextId, today, logCap, inflight>>

\* detail page: the edit form
DetailEdit(user, id, new_title, new_due, new_prio, new_mins) ==
    /\ id \in DOMAIN quests
    /\ IF strip(new_title) = "" THEN
           /\ result' = Outcome("edit", id, user, "title required", 0)
           /\ UNCHANGED <<quests, comments>>
       ELSE
           /\ CanLog
           /\ quests' = update_quest(quests, id,
                                     [title |-> new_title,
                                      description |-> quests[id].description,
                                      due_date |-> new_due,
                                      priority |-> new_prio,
                                      estimated_minutes |-> new_mins])
           /\ comments' = add_comment(comments, id, "System", <<"edited">>, "system")
           /\ result' = Outcome("edit", id, user, "ok", 0)
    /\ UNCHANGED <<nextId, today, logCap, inflight>>

\* detail page: "クエスト削除" with the confirmation text typed
DetailDelete(user, id) ==
    /\ id \in DOMAIN quests
    /\ quests' = delete_quest(quests, id)
    /\ result' = Outcome("delete", id, user, "ok", 0)
    /\ UNCHANGED <<nextId, comments, today, logCap, inflight>>

-----------------------------------------------------------------------------
(* Spec: every handler, from the empty database that init_db leaves *)

Init ==
    /\ quests = <<>>
    /\ nextId = 1
    /\ comments = NoComment
    /\ today = 0
    /\ result = Outcome("init", NoId, "", "ok", 0)
    /\ logCap = MaxComments
    /\ inflight = NoRun

Next ==
    \/ \E user \in Users, form \in QuestForms : CreateQuest(user, form)
    \/ \E user \in Users, id \in 1..MaxQuests : BoardAccept(user, id)
    \/ \E user \in Users, id \in 1..MaxQuests : BoardComplete(user, id)
    \/ \E user \in Users, id \in 1..MaxQuests : DetailAccept(user, id)
    \/ \E user \in Users, id \in 1..MaxQuests, new_status \in valid_statuses :
            DetailSetStatus(user, id, new_status)
    \/ \E user \in Users, id \in 1..MaxQuests, new_assignee \in AssigneeInputs :
            DetailReassign(user, id, new_assignee)
    \/ \E user \in Users, id \in 1..MaxQuests, new_due \in EditDates :
            DetailEdit(user, id, quests[id].title, new_due, quests[id].priority,
                       quests[id].estimated_minutes)
    \/ \E user \in Users, id \in 1..MaxQuests : DetailDelete(user, id)

Spec == Init /\ [][Next]_vars

-----------------------------------------------------------------------------
(* SpecCap: the assignment handlers on a board of MAX_ACTIVE_QUESTS + 1       *)
(* plain quests, the state that many submissions of the create form leave  *)

CapIds == 1..(MAX_ACTIVE_QUESTS + 1)

RECURSIVE PlainQuests(_)
PlainQuests(n) ==
    IF n = 0 THEN <<>>
    ELSE create_quest(PlainQuests(n - 1), n, "Quest", "", 3, NoDate, "alice", 30,
                      "none", NoDate, NoId, <<>>).quests

InitCap ==
    /\ quests = PlainQuests(MAX_ACTIVE_QUESTS + 1)
    /\ nextId = MAX_ACTIVE_QUESTS + 2
    /\ comments = NoComment
    /\ today = 0
    /\ result = Outcome("create", MAX_ACTIVE_QUESTS + 1, "alice", "ok", 0)
    /\ logCap = MaxComments + 1
    /\ inflight = NoRun

NextCap ==
    \/ \E user \in Users, id \in CapIds : BoardAccept(user, id)
    \/ \E user \in Users, id \in CapIds : BoardComplete(user, id)
    \/ \E user \in Users, id \in CapIds : DetailAccept(user, id)
    \/ \E user \in Users, id \in CapIds, new_status \in valid_statuses :
            DetailSetStatus(user, id, new_status)
    \/ \E user \in Users, id \in CapIds, new_assignee \in AssigneeInputs :
            DetailReassign(user, id, new_assignee)

SpecCap == InitCap /\ [][NextCap]_vars

-----------------------------------------------------------------------------
(* SpecChain: every handler, from the state in which a daily quest has been   *)
(* created, accepted and completed once: the root is Done and its first    *)
(* successor waits in Backlog                                               *)

ChainCreated ==
    create_quest(<<>>, 1, "Quest", "", 3, isoformat(0), "alice", 30, "daily",
                 NoDate, NoId, <<>>)

ChainAccepted ==
    change_status(assign_quest(ChainCreated.quests, 1, "alice"), 1, "In Progress")

ChainCompleted ==
    process_recurring_quests(change_status(ChainAccepted, 1, "Done"),
                             ChainCreated.nextId, 0, <<1>>)

ChainComments ==
    add_comment(add_comment(NoComment, 1, "System", <<"accepted">>, "system"),
                1, "System", <<"completed">>, "system")

InitChain ==
    /\ quests = ChainCompleted.quests
    /\ nextId = ChainCompleted.nextId
    /\ comments = ChainComments
    /\ today = 0
    /\ result = Outcome("complete", 1, "alice", "ok", calc_exp(3, 30))
    /\ logCap = ChainComments.id + MaxComments
    /\ inflight = NoRun

SpecChain == InitChain /\ [][Next]_vars

-----------------------------------------------------------------------------
(* SpecOne: the complete button pressed on one quest in progress, for every   *)
(* priority and estimate of the create form and for the recurrence rules,  *)
(* due dates, end dates and days of evaluation below                       *)

\* st.number_input(min_value=5, max_value=480, step=5)
Estimates == {5 * k : k \in 1..96}

Priorities == 1..5

\* str(d) of a weekday number
str(d) ==
    CASE d = 0 -> "0" [] d = 1 -> "1" [] d = 2 -> "2" [] d = 3 -> "3"
      [] d = 4 -> "4" [] d = 5 -> "5" [] d = 6 -> "6"

\* ",".join(str(d) for d in selected_weekdays): the checked boxes from d on
RECURSIVE JoinWeekdays(_, _)
JoinWeekdays(W, d) ==
    IF d > 6 THEN <<>>
    ELSE (IF d \in W THEN <<str(d)>> ELSE <<>>) \o JoinWeekdays(W, d + 1)

\* rows written before the weekday boxes existed or were validated
LegacyWeekdays == {<<>>, <<"x">>, <<"x", "2">>, <<"2", "x">>, <<"">>, <<"7">>}

OneWeekdays(recurrence_type) ==
    IF recurrence_type = "weekly"
    THEN {JoinWeekdays(W, 0) : W \in (SUBSET (0..6)) \ {{}}} \cup LegacyWeekdays
    ELSE {<<>>}

OneDues ==
    {NoDate} \cup {isoformat(d) : d \in 0..MaxBase}
             \cup {<<2024, 12, 31>>, <<2025, 1, 31>>, <<2025, 2, 28>>}

OneEnds == {NoDate, <<2024, 1, 10>>}

OneTodays == {0, 9, 10}

OneQuest(priority, estimated_minutes, due_date, recurrence_type, recurrence_end_date, recurrence_weekdays) ==
    change_status(
        assign_quest(
            create_quest(<<>>, 1, "Quest", "", priority, due_date, "alice",
                         estimated_minutes, recurrence_type,
                         recurrence_end_date, NoId, recurrence_weekdays).quests,
            1, "alice"),
        1, "In Progress")

\* the text typed into the title input of the edit form
EditTitles == {"Quest", " Quest "}

\* the quest of OneQuest after the edit form has been saved with new_title
OneEdited(new_title, due_date, recurrence_type) ==
    LET accepted == OneQuest(3, 30, due_date, recurrence_type, NoDate, <<>>) IN
    update_quest(accepted, 1,
                 [title |-> new_title,
                  description |-> accepted[1].description,
                  due_date |-> due_date,
                  priority |-> accepted[1].priority,
                  estimated_minutes |-> accepted[1].estimated_minutes])

InitOne ==
    /\ nextId = 2
    /\ inflight = NoRun
    /\ \/ /\ today = 0
          /\ comments = add_comment(NoComment, 1, "System", <<"accepted">>, "system")
          /\ result = Outcome("accept", 1, "alice", "ok", 0)
          /\ logCap = 2
          /\ \E priority \in Priorities, estimated_minutes \in Estimates :
                quests = OneQuest(priority, estimated_minutes, NoDate, "none",
                                  NoDate, <<>>)
       \/ /\ today \in OneTodays
          /\ comments = add_comment(NoComment, 1, "System", <<"accepted">>, "system")
          /\ result = Outcome("accept", 1, "alice", "ok", 0)
          /\ logCap = 2
          /\ \E due_date \in OneDues, recurrence_type \in {"daily", "weekly", "monthly"},
                recurrence_end_date \in OneEnds :
                \E recurrence_weekdays \in OneWeekdays(recurrence_type) :
                    quests = OneQuest(3, 30, due_date, recurrence_type,
                                      recurrence_end_date, recurrence_weekdays)
       \/ /\ today = 0
          /\ comments = add_comment(
                            add_comment(NoComment, 1, "System", <<"accepted">>, "system"),
                            1, "System", <<"edited">>, "system")
          /\ result = Outcome("edit", 1, "alice", "ok", 0)
          /\ logCap = 3
          /\ \E new_title \in EditTitles, due_date \in {NoDate, isoformat(0)},
                recurrence_type \in {"none", "daily", "monthly"} :
                quests = OneEdited(new_title, due_date, recurrence_type)

NextOne == \E user \in Users : BoardComplete(user, 1)

SpecOne == InitOne /\ [][NextOne]_vars

-----------------------------------------------------------------------------
(* SpecPort: the storage functions of db.py called with any argument of the   *)
(* small sets below, and the create form filled in by a session whose user *)
(* name or title may be blank                                               *)

PortTitles == {"", " ", " Quest ", "Quest"}

PortCreators == {"", " ", "alice"}

\* the names that pass the test of the sidebar: any non-empty text
PortUsers == {"alice", " "}

PortForms ==
    {[title |-> title, priority |-> 3, estimated_minutes |-> 30,
      due_date |-> NoDate, recurrence_type |-> "none",
      recurrence_end_date |-> NoDate, selected_weekdays |-> <<>>] :
        title \in PortTitles}

PortStatuses == valid_statuses \cup {"Archived"}

\* db.create_quest(title, description, priority, due_date, creator)
PortCreateQuest(title, creator) ==
    /\ nextId <= MaxQuests
    /\ LET made == create_quest(quests, nextId, title, "", 3, NoDate, creator, 30,
                                "none", NoDate, NoId, <<>>)
       IN  /\ quests' = made.quests
           /\ nextId' = made.nextId
           /\ result' = Outcome("create_quest", made.id, creator,
                                IF made.raised THEN "ValueError" ELSE "ok", 0)
    /\ UNCHANGED <<comments, today, logCap, inflight>>

\* db.update_quest(quest_id, status=status)
PortUpdateQuest(quest_id, status) ==
    /\ quests' = update_quest(quests, quest_id, [status |-> status])
    /\ result' = Outcome("update_quest", quest_id, "",
                         IF quest_id \in DOMAIN quests THEN "ok" ELSE "no row", 0)
    /\ UNCHANGED <<nextId, comments, today, logCap, inflight>>

\* db.change_status(quest_id, status)
PortChangeStatus(quest_id, status) ==
    /\ quests' = change_status(quests, quest_id, status)
    /\ result' = Outcome("change_status", quest_id, "",
                         IF change_status_raises(status) THEN "ValueError"
                         ELSE IF quest_id \in DOMAIN quests THEN "ok"
                         ELSE "no row", 0)
    /\ UNCHANGED <<nextId, comments, today, logCap, inflight>>

NextPort ==
    \/ \E user \in PortUsers, form \in PortForms : CreateQuest(user, form)
    \/ \E title \in PortTitles, creator \in PortCreators :
            PortCreateQuest(title, creator)
    \/ \E quest_id \in 1..MaxQuests, status \in PortStatuses :
            PortUpdateQuest(quest_id, status)
    \/ \E quest_id \in 1..MaxQuests, status \in PortStatuses :
            PortChangeStatus(quest_id, status)

SpecPort == Init /\ [][NextPort]_vars

-----------------------------------------------------------------------------
(* SpecGone: the buttons of the detail page in two sessions.  A run of the   *)
(* page script fetches the quest (get_quest_by_id) and reaches the button  *)
(* handler later in the same run; the other session may delete the row in  *)
(* between, so that the handler writes to an id that is no longer stored.  *)

\* comments.quest_id REFERENCES quests(id): checked by PostgreSQL, not by
\* SQLite, whose connections never set PRAGMA foreign_keys
ForeignKeys == BOOLEAN

\* the ids of rows that were stored and are deleted
Gone == (1..(nextId - 1)) \ DOMAIN quests

\* add_comment for a quest id that is not stored: the INSERT fails when the
\* backend checks the reference
LateComment(op, user, id, content, exp, foreign_keys) ==
    IF foreign_keys THEN
        /\ comments' = comments
        /\ result' = Outcome(op, id, user, "IntegrityError", 0)
    ELSE
        /\ comments' = add_comment(comments, id, "System", content, "system")
        /\ result' = Outcome(op, id, user, "ok", exp)

\* "このクエストを受注" on a row deleted since the fetch
LateDetailAccept(user, id, foreign_keys) ==
    /\ id \in Gone
    /\ LET current_active == get_active_quest_count(quests, user) IN
       IF current_active >= MAX_ACTIVE_QUESTS THEN
           /\ result' = Outcome("detail accept", id, user, "limit", 0)
           /\ UNCHANGED <<quests, comments>>
       ELSE
           /\ CanLog
           /\ quests' = change_status(assign_quest(quests, id, user), id, "In Progress")
           /\ LateComment("detail accept", user, id, <<"accepted from detail">>, 0,
                          foreign_keys)
    /\ UNCHANGED <<nextId, today, logCap, inflight>>

\* "ステータス更新" on a row deleted since the fetch; old_status is the status
\* of the row as fetched
LateDetailSetStatus(user, id, old_status, new_status, foreign_keys) ==
    /\ id \in Gone
    /\ IF new_status # old_status THEN
           /\ CanLog
           /\ quests' = change_status(quests, id, new_status)
           /\ LateComment("status", user, id, <<"status", old_status, new_status>>,
                          IF new_status = "Done" /\ old_status # "Done"
                          THEN calc_exp(3, 30) ELSE 0,
                          foreign_keys)
       ELSE
           /\ result' = Outcome("status", id, user, "same", 0)
           /\ UNCHANGED <<quests, comments>>
    /\ UNCHANGED <<nextId, today, logCap, inflight>>

\* "担当者更新" on a row deleted since the fetch; assignee is the assignee of
\* the row as fetched
LateDetailReassign(user, id, assignee, new_assignee, foreign_keys) ==
    /\ id \in Gone
    /\ LET old_assignee == IF assignee # NoUser THEN assignee ELSE Unassigned IN
       IF new_assignee # old_assignee THEN
           /\ CanLog
           /\ quests' = assign_quest(quests, id, new_assignee)
           /\ LateComment("assignee", user, id,
                          <<"assignee", old_assignee, new_assignee>>, 0, foreign_keys)
       ELSE
           /\ result' = Outcome("assignee", id, user, "same", 0)
           /\ UNCHANGED <<quests, comments>>
    /\ UNCHANGED <<nextId, today, logCap, inflight>>

GoneIds == 1..2

InitGone ==
    /\ quests = PlainQuests(2)
    /\ nextId = 3
    /\ comments = NoComment
    /\ today = 0
    /\ result = Outcome("create", 2, "alice", "ok", 0)
    /\ logCap = MaxComments
    /\ inflight = NoRun

NextGone ==
    \/ \E user \in Users, id \in GoneIds : DetailDelete(user, id)
    \/ \E user \in Users, id \in GoneIds : DetailAccept(user, id)
    \/ \E user \in Users, id \in GoneIds, new_status \in valid_statuses :
            DetailSetStatus(user, id, new_status)
    \/ \E user \in Users, id \in GoneIds, new_assignee \in AssigneeInputs :
            DetailReassign(user, id, new_assignee)
    \/ \E user \in Users, id \in GoneIds, foreign_keys \in ForeignKeys :
            LateDetailAccept(user, id, foreign_keys)
    \/ \E user \in Users, id \in GoneIds, old_status \in valid_statuses,
          new_status \in valid_statuses, foreign_keys \in ForeignKeys :
            LateDetailSetStatus(user, id, old_status, new_status, foreign_keys)
    \/ \E user \in Users, id \in GoneIds, assignee \in {NoUser, "alice"},
          new_assignee \in AssigneeInputs, foreign_keys \in ForeignKeys :
            LateDetailReassign(user, id, assignee, new_assignee, foreign_keys)

SpecGone == InitGone /\ [][NextGone]_vars

-----------------------------------------------------------------------------
(* SpecRace: the accept button of the board pressed in two sessions of the   *)
(* same user.  Each storage call of the handler commits on its own, so the *)
(* handler is one step per call: the read of the active count, assign,    *)
(* change_status, add_comment.                                             *)

SessionUser(s) == "alice"

\* current_active = get_active_quest_count(username), tested with >
RaceReadOffByOne(s, id) ==
    /\ inflight[s].pc = "idle"
    /\ id \in DOMAIN quests
    /\ quests[id].status = "Backlog"
    /\ LET current_active == get_active_quest_count(quests, SessionUser(s)) IN
       IF current_active > MAX_ACTIVE_QUESTS THEN
           /\ result' = Outcome("accept", id, SessionUser(s), "limit", 0)
           /\ UNCHANGED inflight
       ELSE
           /\ inflight' = [inflight EXCEPT ![s] = [pc |-> "assign", id |-> id]]
           /\ UNCHANGED result
    /\ UNCHANGED <<quests, nextId, comments, today, logCap>>

\* current_active = get_active_quest_count(username) and the test of the limit
RaceRead(s, id) ==
    /\ inflight[s].pc = "idle"
    /\ id \in DOMAIN quests
    /\ quests[id].status = "Backlog"
    /\ LET current_active == get_active_quest_count(quests, SessionUser(s)) IN
       IF current_active >= MAX_ACTIVE_QUESTS THEN
           /\ result' = Outcome("accept", id, SessionUser(s), "limit", 0)
           /\ UNCHANGED inflight
       ELSE
           /\ inflight' = [inflight EXCEPT ![s] = [pc |-> "assign", id |-> id]]
           /\ UNCHANGED result
    /\ UNCHANGED <<quests, nextId, comments, today, logCap>>

\* db.assign_quest(quest["id"], username)
RaceAssign(s) ==
    /\ inflight[s].pc = "assign"
    /\ quests' = assign_quest(quests, inflight[s].id, SessionUser(s))
    /\ inflight' = [inflight EXCEPT ![s].pc = "status"]
    /\ UNCHANGED <<nextId, comments, today, result, logCap>>

\* db.change_status(quest["id"], "In Progress")
RaceStatus(s) ==
    /\ inflight[s].pc = "status"
    /\ quests' = change_status(quests, inflight[s].id, "In Progress")
    /\ inflight' = [inflight EXCEPT ![s].pc = "log"]
    /\ UNCHANGED <<nextId, comments, today, result, logCap>>

\* db.add_comment(quest["id"], "System", ...) and the end of the handler
RaceLog(s) ==
    /\ inflight[s].pc = "log"
    /\ CanLog
    /\ comments' = add_comment(comments, inflight[s].id, "System", <<"accepted">>,
                               "system")
    /\ result' = Outcome("accept", inflight[s].id, SessionUser(s), "ok", 0)
    /\ inflight' = [inflight EXCEPT ![s] = Idle]
    /\ UNCHANGED <<quests, nextId, today, logCap>>

\* quests 1..n of qs accepted by user, one after the other
RECURSIVE AcceptedUpTo(_, _, _)
AcceptedUpTo(qs, n, user) ==
    IF n = 0 THEN qs
    ELSE change_status(assign_quest(AcceptedUpTo(qs, n - 1, user), n, user),
                       n, "In Progress")

RECURSIVE AcceptLogs(_)
AcceptLogs(n) ==
    IF n = 0 THEN NoComment
    ELSE add_comment(AcceptLogs(n - 1), n, "System", <<"accepted">>, "system")

\* MAX_ACTIVE_QUESTS + 2 plain quests, the first MAX_ACTIVE_QUESTS - 1 of them
\* accepted by alice
InitRace ==
    /\ quests = AcceptedUpTo(PlainQuests(MAX_ACTIVE_QUESTS + 2),
                             MAX_ACTIVE_QUESTS - 1, "alice")
    /\ nextId = MAX_ACTIVE_QUESTS + 3
    /\ comments = AcceptLogs(MAX_ACTIVE_QUESTS - 1)
    /\ today = 0
    /\ result = Outcome("accept", MAX_ACTIVE_QUESTS - 1, "alice", "ok", 0)
    /\ logCap = MAX_ACTIVE_QUESTS - 1 + MaxComments
    /\ inflight = NoRun

NextRace ==
    \/ \E s \in Sessions, id \in 1..(MAX_ACTIVE_QUESTS + 2) : RaceRead(s, id)
    \/ \E s \in Sessions : RaceAssign(s)
    \/ \E s \in Sessions : RaceStatus(s)
    \/ \E s \in Sessions : RaceLog(s)

SpecRace == InitRace /\ [][NextRace]_vars

-----------------------------------------------------------------------------
(* SpecRun: the complete button of the board pressed in two sessions, one    *)
(* step per storage call: change_status, add_comment, the query of          *)
(* process_recurring_quests, and for each row fetched the count query,      *)
(* create_quest and the update_quest that clears the rule.                  *)

\* db.change_status(quest["id"], "Done")
RunComplete(s, id) ==
    /\ inflight[s].pc = "idle"
    /\ id \in DOMAIN quests
    /\ quests[id].status = "In Progress"
    /\ quests[id].assignee = SessionUser(s)
    /\ quests' = change_status(quests, id, "Done")
    /\ inflight' = [inflight EXCEPT ![s] =
                       [pc |-> "log", id |-> id,
                        exp |-> calc_exp(quests[id].priority,
                                         quests[id].estimated_minutes)]]
    /\ UNCHANGED <<nextId, comments, today, result, logCap>>

\* db.add_comment(quest["id"], "System", ...)
RunCompleteLog(s) ==
    /\ inflight[s].pc = "log"
    /\ CanLog
    /\ comments' = add_comment(comments, inflight[s].id, "System", <<"completed">>,
                               "system")
    /\ inflight' = [inflight EXCEPT ![s].pc = "fetch"]
    /\ UNCHANGED <<quests, nextId, today, result, logCap>>

\* recurring_quests = _fetch_all(...): the rows as they are now, in an order
\* the backend chooses
RunFetch(s) ==
    /\ inflight[s].pc = "fetch"
    /\ \E order \in Orders(RecurringDone(quests)) :
          inflight' = [inflight EXCEPT ![s] =
                          [pc |-> "check", id |-> inflight[s].id,
                           exp |-> inflight[s].exp,
                           rows |-> [k \in DOMAIN order |->
                                        [id |-> order[k], quest |-> quests[order[k]]]]]]
    /\ UNCHANGED <<quests, nextId, comments, today, result, logCap>>

\* RunCheck without the count query: every row planned is created
RunCheckNoCount(s) ==
    /\ inflight[s].pc = "check"
    /\ inflight[s].rows # <<>>
    /\ LET id        == Head(inflight[s].rows).id
           quest     == Head(inflight[s].rows).quest
           end       == quest.recurrence_end_date
           base_date == IF quest.due_date # NoDate THEN strptime(quest.due_date)
                        ELSE today
           next_due  == NextDue(quest.recurrence_type, quest.recurrence_weekdays,
                                base_date)
           parent_id == IF quest.parent_quest_id # NoId THEN quest.parent_quest_id
                        ELSE id
           skip      == [inflight EXCEPT ![s].rows = Tail(@)]
       IN
       IF end # NoDate /\ today > strptime(end) THEN
           inflight' = skip /\ UNCHANGED quests
       ELSE IF next_due = NoNext THEN
           inflight' = skip /\ UNCHANGED quests
       ELSE IF end # NoDate /\ next_due > strptime(end) THEN
           /\ quests' = update_quest(quests, id, [recurrence_type |-> "none"])
           /\ inflight' = skip
       ELSE
           /\ inflight' = [inflight EXCEPT ![s] =
                              [pc |-> "create", id |-> inflight[s].id,
                               exp |-> inflight[s].exp, rows |-> inflight[s].rows,
                               next_due |-> next_due, parent_id |-> parent_id]]
           /\ UNCHANGED quests
    /\ UNCHANGED <<nextId, comments, today, result, logCap>>

\* one row of the loop up to the count query: the end date tests, next_due,
\* parent_id and the test of the count
RunCheck(s) ==
    /\ inflight[s].pc = "check"
    /\ inflight[s].rows # <<>>
    /\ LET id        == Head(inflight[s].rows).id
           quest     == Head(inflight[s].rows).quest
           end       == quest.recurrence_end_date
           base_date == IF quest.due_date # NoDate THEN strptime(quest.due_date)
                        ELSE today
           next_due  == NextDue(quest.recurrence_type, quest.recurrence_weekdays,
                                base_date)
           parent_id == IF quest.parent_quest_id # NoId THEN quest.parent_quest_id
                        ELSE id
           skip      == [inflight EXCEPT ![s].rows = Tail(@)]
       IN
       IF end # NoDate /\ today > strptime(end) THEN
           inflight' = skip /\ UNCHANGED quests
       ELSE IF next_due = NoNext THEN
           inflight' = skip /\ UNCHANGED quests
       ELSE IF end # NoDate /\ next_due > strptime(end) THEN
           /\ quests' = update_quest(quests, id, [recurrence_type |-> "none"])
           /\ inflight' = skip
       ELSE IF CountOccurrences(quests, parent_id, isoformat(next_due)) > 0 THEN
           inflight' = skip /\ UNCHANGED quests
       ELSE
           /\ inflight' = [inflight EXCEPT ![s] =
                              [pc |-> "create", id |-> inflight[s].id,
                               exp |-> inflight[s].exp, rows |-> inflight[s].rows,
                               next_due |-> next_due, parent_id |-> parent_id]]
           /\ UNCHANGED quests
    /\ UNCHANGED <<nextId, comments, today, result, logCap>>

\* create_quest(...) for the row at the head of the list
RunCreate(s) ==
    /\ inflight[s].pc = "create"
    /\ LET quest == Head(inflight[s].rows).quest
           made  == create_quest(quests, nextId, quest.title, quest.description,
                                 quest.priority, isoformat(inflight[s].next_due),
                                 quest.creator, quest.estimated_minutes,
                                 quest.recurrence_type, quest.recurrence_end_date,
                                 inflight[s].parent_id, quest.recurrence_weekdays)
       IN
       IF made.raised THEN
           /\ result' = Outcome("complete", inflight[s].id, SessionUser(s), "error", 0)
           /\ inflight' = [inflight EXCEPT ![s] = Idle]
           /\ UNCHANGED <<quests, nextId>>
       ELSE
           /\ quests' = made.quests
           /\ nextId' = made.nextId
           /\ inflight' = [inflight EXCEPT ![s].pc = "clear"]
           /\ UNCHANGED result
    /\ UNCHANGED <<comments, today, logCap>>

\* update_quest(quest["id"], recurrence_type="none"), then the next row
RunClear(s) ==
    /\ inflight[s].pc = "clear"
    /\ quests' = update_quest(quests, Head(inflight[s].rows).id,
                              [recurrence_type |-> "none"])
    /\ inflight' = [inflight EXCEPT ![s] =
                       [pc |-> "check", id |-> inflight[s].id,
                        exp |-> inflight[s].exp, rows |-> Tail(inflight[s].rows)]]
    /\ UNCHANGED <<nextId, comments, today, result, logCap>>

\* the loop is over: calc_exp, show_exp_gain and st.rerun
RunEnd(s) ==
    /\ inflight[s].pc = "check"
    /\ inflight[s].rows = <<>>
    /\ result' = Outcome("complete", inflight[s].id, SessionUser(s), "ok",
                         inflight[s].exp)
    /\ inflight' = [inflight EXCEPT ![s] = Idle]
    /\ UNCHANGED <<quests, nextId, comments, today, logCap>>

\* a daily quest due today and a daily quest without due date, both created
\* and accepted by alice
RunQuests ==
    LET first  == create_quest(<<>>, 1, "Quest", "", 3, isoformat(0), "alice", 30,
                               "daily", NoDate, NoId, <<>>)
        second == create_quest(first.quests, first.nextId, "Quest", "", 3, NoDate,
                               "alice", 30, "daily", NoDate, NoId, <<>>)
    IN  AcceptedUpTo(second.quests, 2, "alice")

InitRun ==
    /\ quests = RunQuests
    /\ nextId = 3
    /\ comments = AcceptLogs(2)
    /\ today = 0
    /\ result = Outcome("accept", 2, "alice", "ok", 0)
    /\ logCap = 2 + MaxComments
    /\ inflight = NoRun

NextRun ==
    \/ \E s \in Sessions, id \in 1..2 : RunComplete(s, id)
    \/ \E s \in Sessions : RunCompleteLog(s)
    \/ \E s \in Sessions : RunFetch(s)
    \/ \E s \in Sessions : RunCheck(s)
    \/ \E s \in Sessions : RunCreate(s)
    \/ \E s \in Sessions : RunClear(s)
    \/ \E s \in Sessions : RunEnd(s)

SpecRun == InitRun /\ [][NextRun]_vars

-----------------------------------------------------------------------------
(* SpecLimit: accept, status update and reassignment, one operation at a    *)
(* time, on MAX_ACTIVE_QUESTS + 1 plain quests of which alice has accepted  *)
(* MAX_ACTIVE_QUESTS; the assignee field of the detail page takes any name. *)

LimitIds == 1..(MAX_ACTIVE_QUESTS + 1)

\* the names typed into the assignee field
LimitAssignees == {"alice", "bob"}

InitLimit ==
    /\ quests = AcceptedUpTo(PlainQuests(MAX_ACTIVE_QUESTS + 1), MAX_ACTIVE_QUESTS,
                             "alice")
    /\ nextId = MAX_ACTIVE_QUESTS + 2
    /\ comments = AcceptLogs(MAX_ACTIVE_QUESTS)
    /\ today = 0
    /\ result = Outcome("accept", MAX_ACTIVE_QUESTS, "alice", "ok", 0)
    /\ logCap = MAX_ACTIVE_QUESTS + MaxComments
    /\ inflight = NoRun

NextLimit ==
    \/ \E user \in Users, id \in LimitIds : BoardAccept(user, id)
    \/ \E user \in Users, id \in LimitIds : DetailAccept(user, id)
    \/ \E user \in Users, id \in LimitIds, new_status \in valid_statuses :
            DetailSetStatus(user, id, new_status)
    \/ \E user \in Users, id \in LimitIds, new_assignee \in LimitAssignees :
            DetailReassign(user, id, new_assignee)

SpecLimit == InitLimit /\ [][NextLimit]_vars

-----------------------------------------------------------------------------
(* SpecLine: accept, complete, status update and edit, from the state in    *)
(* which the daily quest 1 and its first occurrence 2 have both been        *)
(* accepted and completed, so that the lineage of quest 1 has the           *)
(* occurrences 2 and 3.                                                     *)

LineAccepted ==
    change_status(assign_quest(ChainCompleted.quests, 2, "alice"), 2, "In Progress")

LineCompleted ==
    process_recurring_quests(change_status(LineAccepted, 2, "Done"),
                             ChainCompleted.nextId, 0, <<2>>)

LineComments ==
    add_comment(add_comment(ChainComments, 2, "System", <<"accepted">>, "system"),
                2, "System", <<"completed">>, "system")

InitLine ==
    /\ quests = LineCompleted.quests
    /\ nextId = LineCompleted.nextId
    /\ comments = LineComments
    /\ today = 0
    /\ result = Outcome("complete", 2, "alice", "ok", calc_exp(3, 30))
    /\ logCap = LineComments.id + MaxComments
    /\ inflight = NoRun

NextLine ==
    \/ \E user \in Users, id \in 1..MaxQuests : BoardAccept(user, id)
    \/ \E user \in Users, id \in 1..MaxQuests : BoardComplete(user, id)
    \/ \E user \in Users, id \in 1..MaxQuests : DetailAccept(user, id)
    \/ \E user \in Users, id \in 1..MaxQuests, new_status \in valid_statuses :
            DetailSetStatus(user, id, new_status)
    \/ \E user \in Users, id \in 1..MaxQuests, new_due \in EditDates :
            DetailEdit(user, id, quests[id].title, new_due, quests[id].priority,
                       quests[id].estimated_minutes)

SpecLine == InitLine /\ [][NextLine]_vars

-----------------------------------------------------------------------------
(* Properties *)

AcceptOps == {"accept", "detail accept"}

\* the quests in progress that are assigned to user
ActiveOf(qs, user) ==
    {i \in DOMAIN qs : qs[i].status = "In Progress" /\ qs[i].assignee = user}

\* C1: an accept succeeds exactly when the actor has fewer than 3 quests in
\* progress in storage at the time of the call; on success the quest is in
\* progress and assigned to the actor and one log row is added; with 3 or
\* more it is rejected, no quest changes and no log row is added.
C1_AcceptIffBelowCap ==
    [][result'.op \in AcceptOps =>
          LET n == Cardinality(ActiveOf(quests, result'.user)) IN
          /\ (result'.outcome = "ok") <=> (n < 3)
          /\ (result'.outcome = "limit") <=> (n >= 3)
          /\ n < 3 => /\ quests'[result'.id].status = "In Progress"
                      /\ quests'[result'.id].assignee = result'.user
                      /\ comments'.id = comments.id + 1
                      /\ comments'.quest_id = result'.id
          /\ n >= 3 => /\ quests' = quests
                       /\ comments' = comments]_vars

\* C1 witness: a fourth accept has been rejected while three quests of the
\* actor are in progress
C1_Witness ==
    /\ result.op \in AcceptOps
    /\ result.outcome = "limit"
    /\ Cardinality(ActiveOf(quests, result.user)) = 3
    /\ quests[result.id].status = "Backlog"

\* C2: an accept request leaves a quest that is not in Backlog with the
\* status and the assignee it had.
C2_AcceptOnlyFromBacklog ==
    [][(result'.op \in AcceptOps /\ quests[result'.id].status # "Backlog") =>
          /\ quests'[result'.id].status = quests[result'.id].status
          /\ quests'[result'.id].assignee = quests[result'.id].assignee]_vars

\* the lineage root the scheduler uses for quest id
RootOf(qs, id) ==
    IF qs[id].parent_quest_id # NoId THEN qs[id].parent_quest_id ELSE id

\* the quests the scheduler has created: those with a parent
Occurrences(qs) == {i \in DOMAIN qs : qs[i].parent_quest_id # NoId}

\* C3: there are never two quests with the same parent and the same due date.
C3_OneOccurrencePerDate ==
    \A i, j \in Occurrences(quests) :
        (i # j /\ quests[i].parent_quest_id = quests[j].parent_quest_id)
            => quests[i].due_date # quests[j].due_date

\* a second run of the scheduler on storage qs creates no quest, in whatever
\* order it takes the rows
SecondRunCreatesNothing(qs, nid) ==
    \A order \in Orders(RecurringDone(qs)) :
        LET again == process_recurring_quests(qs, nid, today, order) IN
        /\ again.nextId = nid
        /\ DOMAIN again.quests = DOMAIN qs

\* C4: a scheduler run that follows another one with no change of state in
\* between creates no quest: neither after the run of a complete button, nor
\* after a run started on any state reached.
C4_SchedulerIdempotent ==
    /\ result.op = "complete" => SecondRunCreatesNothing(quests, nextId)
    /\ \A order \in Orders(RecurringDone(quests)) :
          LET first == process_recurring_quests(quests, nextId, today, order) IN
          SecondRunCreatesNothing(first.quests, first.nextId)

\* C4 witness: the first successor has been completed and the run has
\* created the second one
C4_Witness ==
    /\ result.op = "complete"
    /\ result.id = 2
    /\ 3 \in DOMAIN quests
    /\ quests[3].parent_quest_id = 1
    /\ quests[3].status = "Backlog"
    /\ quests[2].recurrence_type = "none"

\* C5: a quest with a parent is created only in a step in which some quest
\* goes from a status other than Done to Done; a status update to Done of a
\* quest that is Done changes no quest.
C5_OnlyTransitionIntoDoneGenerates ==
    [][/\ (Occurrences(quests') \ DOMAIN quests # {}) =>
              \E i \in DOMAIN quests \cap DOMAIN quests' :
                  quests[i].status # "Done" /\ quests'[i].status = "Done"
       /\ \A i \in DOMAIN quests :
              (result'.op = "status" /\ result'.id = i /\ result'.outcome = "same"
                   /\ quests[i].status = "Done") => quests' = quests]_vars

\* C5 witness: Done has been set on a recurring quest that is Done
C5_Witness ==
    /\ result.op = "status"
    /\ result.outcome = "same"
    /\ result.id \in DOMAIN quests
    /\ quests[result.id].status = "Done"
    /\ quests[result.id].recurrence_type # "none"

\* C6: when a step takes a recurring quest without end date from a status
\* other than Done to Done, its successor exists after the step.
C6_DoneRunsScheduler ==
    [][\A i \in DOMAIN quests \cap DOMAIN quests' :
          (/\ quests[i].status # "Done"
           /\ quests'[i].status = "Done"
           /\ quests[i].recurrence_type \in {"daily", "weekly", "monthly"}
           /\ quests[i].recurrence_end_date = NoDate)
          => \E k \in Occurrences(quests') :
                /\ quests'[k].parent_quest_id = RootOf(quests, i)
                /\ quests'[k].due_date =
                      isoformat(NextDue(quests[i].recurrence_type,
                                        quests[i].recurrence_weekdays,
                                        IF quests[i].due_date # NoDate
                                        THEN strptime(quests[i].due_date)
                                        ELSE today))]_vars

\* C7: completing a quest creates quests of that quest's lineage only and
\* leaves the recurrence type of every other quest as it was.
C7_RunEvaluatesOnlyTrigger ==
    [][result'.op = "complete" =>
          /\ \A b \in DOMAIN quests \ {result'.id} :
                /\ b \in DOMAIN quests'
                /\ quests'[b].recurrence_type = quests[b].recurrence_type
          /\ \A k \in DOMAIN quests' \ DOMAIN quests :
                quests'[k].parent_quest_id = RootOf(quests, result'.id)]_vars

\* C8: the EXP shown on completion is priority * 20 plus the whole number of
\* tens in the estimate, for every priority 1..5 and estimate 5, 10, ..., 480;
\* priority 3 with 30 minutes gives 63.
C8_RewardScore ==
    result.op = "complete" =>
        LET q == quests[result.id]
            k == result.exp - q.priority * 20
        IN  /\ 10 * k <= q.estimated_minutes
            /\ q.estimated_minutes < 10 * (k + 1)
            /\ (q.priority = 3 /\ q.estimated_minutes = 30) => result.exp = 63
            /\ (q.priority = 5 /\ q.estimated_minutes = 475) => result.exp = 147

\* C8 witness: a quest of priority 3 and 30 minutes has been completed
C8_Witness ==
    /\ result.op = "complete"
    /\ quests[1].priority = 3
    /\ quests[1].estimated_minutes = 30
    /\ quests[1].recurrence_type = "none"
    /\ result.exp = 63

\* the base date of the scheduler for quest q on day tday
BaseOf(q, tday) == IF q.due_date # NoDate THEN strptime(q.due_date) ELSE tday

\* the quest q as completed leaves successor row 2 with due date due
Leaves(due_before, due_after) ==
    (quests[1].due_date = due_before /\ 2 \in DOMAIN quests')
        => quests'[2].due_date = due_after

\* C9: completing a daily quest creates, unless its end date forbids it, a
\* successor due one day after the base date: 2024-01-10 gives 2024-01-11,
\* also across the end of a month, of February and of the year.
C9_DailyNextDay ==
    [][(result'.op = "complete" /\ quests[1].recurrence_type = "daily") =>
          /\ 2 \in DOMAIN quests' =>
                /\ strptime(quests'[2].due_date) = BaseOf(quests[1], today) + 1
                /\ quests'[2].parent_quest_id = 1
          /\ quests[1].recurrence_end_date = NoDate => 2 \in DOMAIN quests'
          /\ Leaves(<<2024, 1, 10>>, <<2024, 1, 11>>)
          /\ Leaves(<<2024, 1, 31>>, <<2024, 2, 1>>)
          /\ Leaves(<<2024, 2, 29>>, <<2024, 3, 1>>)
          /\ Leaves(<<2024, 12, 31>>, <<2025, 1, 1>>)
          /\ Leaves(<<2025, 2, 28>>, <<2025, 3, 1>>)]_vars

\* C9 witness: the daily quest due 2024-01-10 has been completed
C9_Witness ==
    /\ result.op = "complete"
    /\ quests[1].due_date = <<2024, 1, 10>>
    /\ 2 \in DOMAIN quests
    /\ quests[2].recurrence_type = "daily"
    /\ quests[2].due_date = <<2024, 1, 11>>

\* the weekday numbers 0..6 named by the tokens of a weekday list
WeekdaysOf(toks) == {n \in 0..6 : \E i \in DOMAIN toks : toks[i] = str(n)}

WellFormedWeekdays(toks) ==
    /\ toks # <<>>
    /\ \A i \in DOMAIN toks : \E n \in 0..6 : toks[i] = str(n)

\* C10: completing a weekly quest with a non-empty weekday set W creates,
\* unless its end date forbids it, a successor due on the first date after
\* the base date whose weekday is in W, at most 7 days later; with Mon, Wed,
\* Fri, Thursday 2024-01-11 gives Friday 2024-01-12, which gives Monday
\* 2024-01-15.
C10_WeeklyNextWeekday ==
    [][(/\ result'.op = "complete"
        /\ quests[1].recurrence_type = "weekly"
        /\ WellFormedWeekdays(quests[1].recurrence_weekdays)) =>
          LET W == WeekdaysOf(quests[1].recurrence_weekdays)
              b == BaseOf(quests[1], today)
          IN
          /\ 2 \in DOMAIN quests' =>
                LET d == strptime(quests'[2].due_date) IN
                /\ b < d
                /\ d <= b + 7
                /\ (d % 7) \in W
                /\ \A e \in (b + 1)..(d - 1) : (e % 7) \notin W
          /\ quests[1].recurrence_end_date = NoDate => 2 \in DOMAIN quests'
          /\ quests[1].recurrence_weekdays = <<"0", "2", "4">> =>
                /\ Leaves(<<2024, 1, 11>>, <<2024, 1, 12>>)
                /\ Leaves(<<2024, 1, 12>>, <<2024, 1, 15>>)]_vars

\* C10 witness: the Mon/Wed/Fri quest due Friday 2024-01-12 has been completed
C10_Witness ==
    /\ result.op = "complete"
    /\ quests[1].due_date = <<2024, 1, 12>>
    /\ 2 \in DOMAIN quests
    /\ quests[2].recurrence_type = "weekly"
    /\ quests[2].recurrence_weekdays = <<"0", "2", "4">>
    /\ quests[2].due_date = <<2024, 1, 15>>

\* the base date of the scheduler for quest q on day tday, as a date string
BaseStringOf(q, tday) == IF q.due_date # NoDate THEN q.due_date ELSE isoformat(tday)

\* C11: completing a monthly quest creates, unless its end date forbids it, a
\* successor due in the month after the base date's, January of the next
\* year after December, on the base date's day of the month or on the 28th
\* when that day is later; the due date is a date of the calendar;
\* 2024-01-31 gives 2024-02-28.
C11_MonthlyClampedTo28 ==
    [][(result'.op = "complete" /\ quests[1].recurrence_type = "monthly") =>
          LET b == BaseStringOf(quests[1], today) IN
          /\ 2 \in DOMAIN quests' =>
                LET n == quests'[2].due_date IN
                /\ n[1] = (IF b[2] = 12 THEN b[1] + 1 ELSE b[1])
                /\ n[2] = (IF b[2] = 12 THEN 1 ELSE b[2] + 1)
                /\ n[3] = (IF b[3] <= 28 THEN b[3] ELSE 28)
                /\ n[2] \in 1..12
                /\ n[3] \in 1..DaysInMonth(n[1], n[2])
          /\ quests[1].recurrence_end_date = NoDate => 2 \in DOMAIN quests'
          /\ Leaves(<<2024, 1, 31>>, <<2024, 2, 28>>)
          /\ Leaves(<<2024, 2, 29>>, <<2024, 3, 28>>)
          /\ Leaves(<<2024, 12, 31>>, <<2025, 1, 28>>)
          /\ Leaves(<<2025, 1, 31>>, <<2025, 2, 28>>)]_vars

\* C11 witness: the monthly quest due 2024-01-31 has been completed
C11_Witness ==
    /\ result.op = "complete"
    /\ quests[1].due_date = <<2024, 1, 31>>
    /\ 2 \in DOMAIN quests
    /\ quests[2].recurrence_type = "monthly"
    /\ quests[2].due_date = <<2024, 2, 28>>

RecurrenceTypes == {"daily", "weekly", "monthly"}

\* C12: when the next occurrence computed for a completed recurring quest is
\* later than the end date of its rule, the run creates no successor and
\* sets the recurrence type of the quest to none, on whatever day it runs.
C12_PastEndDateClearsRule ==
    [][(/\ result'.op = "complete"
        /\ quests[1].recurrence_type \in RecurrenceTypes
        /\ quests[1].recurrence_end_date # NoDate
        /\ NextDue(quests[1].recurrence_type, quests[1].recurrence_weekdays,
                   BaseOf(quests[1], today)) > strptime(quests[1].recurrence_end_date))
          => /\ DOMAIN quests' = DOMAIN quests
             /\ quests'[1].recurrence_type = "none"]_vars

\* C16: when the day of the run is later than the end date of a completed
\* recurring quest, the run creates no successor for it and sets its
\* recurrence type to none.
C16_RunAfterEndDateClearsRule ==
    [][(/\ result'.op = "complete"
        /\ quests[1].recurrence_type \in RecurrenceTypes
        /\ quests[1].recurrence_end_date # NoDate
        /\ today > strptime(quests[1].recurrence_end_date))
          => /\ 2 \notin DOMAIN quests'
             /\ quests'[1].status = "Done"
             /\ quests'[1].recurrence_type = "none"]_vars

\* C17: the successor that completing a quest creates has the title,
\* description, priority, estimate, creator, recurrence type, end date and
\* weekdays of the completed quest, is due on the next occurrence, has the
\* lineage root as parent, is in Backlog without assignee, and has an id no
\* quest had before.
C17_SuccessorCopiesSource ==
    [][(result'.op = "complete" /\ DOMAIN quests' # DOMAIN quests) =>
          \A k \in DOMAIN quests' \ DOMAIN quests :
              LET src == quests[1]
                  new == quests'[k]
              IN  /\ new.title = src.title
                  /\ new.description = src.description
                  /\ new.priority = src.priority
                  /\ new.estimated_minutes = src.estimated_minutes
                  /\ new.creator = src.creator
                  /\ new.recurrence_type = src.recurrence_type
                  /\ new.recurrence_end_date = src.recurrence_end_date
                  /\ new.recurrence_weekdays = src.recurrence_weekdays
                  /\ new.due_date # NoDate
                  /\ strptime(new.due_date) =
                        NextDue(src.recurrence_type, src.recurrence_weekdays,
                                BaseOf(src, today))
                  /\ new.parent_quest_id = RootOf(quests, 1)
                  /\ new.status = "Backlog"
                  /\ new.assignee = NoUser
                  /\ k \notin DOMAIN quests
                  /\ k >= nextId]_vars

\* C18: when a step creates a successor, the quest it was created for has
\* recurrence type none and status Done after the step, and the successor
\* has the recurrence type that quest had before the step.
C18_RuleHandedToSuccessor ==
    [][\A k \in Occurrences(quests') \ DOMAIN quests :
          \E i \in DOMAIN quests :
              /\ quests[i].recurrence_type \in RecurrenceTypes
              /\ quests'[k].parent_quest_id = RootOf(quests, i)
              /\ quests'[k].recurrence_type = quests[i].recurrence_type
              /\ quests'[i].recurrence_type = "none"
              /\ quests'[i].status = "Done"]_vars

\* C18 witness: a weekly quest has been completed and its successor is weekly
C18_Witness ==
    /\ result.op = "complete"
    /\ result.id = 1
    /\ quests[1].status = "Done"
    /\ quests[1].recurrence_type = "none"
    /\ quests[1].recurrence_weekdays # <<>>
    /\ 2 \in DOMAIN quests
    /\ quests[2].parent_quest_id = 1
    /\ quests[2].recurrence_type = "weekly"

\* C19: the parent of a quest that has one is never a quest that has a
\* parent itself: it is an older id, a quest without parent when that quest
\* is still stored, and a step that creates a successor gives it the
\* parent of the completed quest, or the completed quest's own id when
\* that quest has no parent.
C19_LineageFlattened ==
    [][/\ \A k \in Occurrences(quests') :
              LET p == quests'[k].parent_quest_id IN
              /\ p < k
              /\ p \notin Occurrences(quests')
              /\ p \in DOMAIN quests' => quests'[p].parent_quest_id = NoId
       /\ \A k \in Occurrences(quests') \ DOMAIN quests :
              \E i \in DOMAIN quests :
                  /\ quests[i].status # "Done" \/ quests[i].recurrence_type # "none"
                  /\ quests'[i].status = "Done"
                  /\ quests'[k].parent_quest_id =
                        (IF quests[i].parent_quest_id # NoId
                         THEN quests[i].parent_quest_id ELSE i)]_vars

\* C19 witness: the second generation has been completed and the third one
\* has the root as parent
C19_Witness ==
    /\ result.op = "complete"
    /\ result.id = 2
    /\ quests[2].parent_quest_id = 1
    /\ 3 \in DOMAIN quests
    /\ quests[3].parent_quest_id = 1
    /\ 1 \in DOMAIN quests => quests[1].parent_quest_id = NoId

\* C20: the successor of a completed recurring quest is due on the next
\* occurrence counted from the quest's own due date when it has one, and
\* from the day of the run when it has none; a daily quest without due
\* date completed on day t gets a successor due on t + 1.
C20_BaseDate ==
    [][(/\ result'.op = "complete"
        /\ quests[1].recurrence_type \in RecurrenceTypes
        /\ 2 \in DOMAIN quests') =>
          LET q == quests[1]
              d == strptime(quests'[2].due_date)
          IN
          /\ q.due_date # NoDate =>
                d = NextDue(q.recurrence_type, q.recurrence_weekdays,
                            strptime(q.due_date))
          /\ q.due_date = NoDate =>
                d = NextDue(q.recurrence_type, q.recurrence_weekdays, today)
          /\ q.recurrence_type = "daily" =>
                /\ q.due_date # NoDate => d = strptime(q.due_date) + 1
                /\ q.due_date = NoDate => d = today + 1
                /\ (q.due_date = NoDate /\ today = 9) =>
                        quests'[2].due_date = <<2024, 1, 11>>
                /\ (q.due_date = <<2024, 2, 29>> /\ today = 9) =>
                        quests'[2].due_date = <<2024, 3, 1>>]_vars

\* C20 witness: a daily quest without due date has been completed on
\* 2024-01-10 and its successor is due 2024-01-11
C20_Witness ==
    /\ result.op = "complete"
    /\ today = 9
    /\ quests[1].due_date = NoDate
    /\ 2 \in DOMAIN quests
    /\ quests[2].recurrence_type = "daily"
    /\ quests[2].due_date = <<2024, 1, 11>>

\* a string that is empty or only white space
Blank(text) == text \in {"", " "}

\* C13: a call of create_quest, or a submission of the create form, with a
\* title or a creator that is empty or only white space is refused with an
\* error and leaves the quests table as it was.
C13_BlankTitleOrCreatorRefused ==
    [][/\ \A title \in PortTitles, creator \in PortCreators :
              (PortCreateQuest(title, creator) /\ (Blank(title) \/ Blank(creator)))
                  => /\ result'.outcome = "ValueError"
                     /\ quests' = quests
                     /\ nextId' = nextId
       /\ \A user \in PortUsers, form \in PortForms :
              (CreateQuest(user, form) /\ (Blank(form.title) \/ Blank(user)))
                  => /\ result'.outcome \in {"title required", "error"}
                     /\ quests' = quests
                     /\ nextId' = nextId
       /\ \A i \in DOMAIN quests' :
              ~Blank(quests'[i].title) /\ ~Blank(quests'[i].creator)]_vars

\* C13 witness: the create form has been refused for a session whose user
\* name is a space, with one quest in storage
C13_Witness ==
    /\ result.op = "create"
    /\ result.user = " "
    /\ result.outcome = "error"
    /\ DOMAIN quests = {1}

\* C14: the status of every quest is Backlog, In Progress, Review or Done.
C14_StatusIsOneOfFour ==
    \A i \in DOMAIN quests :
        quests[i].status \in {"Backlog", "In Progress", "Review", "Done"}

\* C15: an accept, a status update or a change of assignee requested for a
\* quest id that is not stored fails as not found, changes no quest and
\* adds no log row.
C15_MissingQuestNotFound ==
    [][(result'.op \in {"detail accept", "status", "assignee"}
            /\ result'.id \notin DOMAIN quests)
          => /\ result'.outcome = "not found"
             /\ quests' = quests
             /\ comments' = comments]_vars

\* weekday lists without any numeric token
NoNumericToken == {<<>>, <<"x">>, <<"">>}

\* weekday lists in which the token 2 stands next to a token that is no number
MixedTokens == {<<"x", "2">>, <<"2", "x">>}

C22_SetStatusAlwaysWritesAndLogs ==
    [][\A user \in Users, id \in DOMAIN quests, new_status \in valid_statuses :
          DetailSetStatus(user, id, new_status) =>
              /\ result'.outcome = "ok"
              /\ quests'[id].status = new_status
              /\ comments'.id = comments.id + 1
              /\ comments'.quest_id = id
              /\ comments'.log_type = "system"
              /\ comments'.content = <<"status", quests[id].status, new_status>>]_vars

\* the fields of a quest that a change of assignee must leave alone
FrameOfReassign ==
    {"title", "description", "status", "priority", "due_date", "estimated_minutes",
     "creator", "recurrence_type", "recurrence_end_date", "parent_quest_id",
     "recurrence_weekdays"}

\* C23: a change of assignee on the detail page leaves every field of the
\* quest but the assignee, and every other quest, as it was; the assignee
\* becomes the text entered, or none when the text is empty.
C23_ReassignChangesOnlyAssignee ==
    [][\A user \in Users, id \in DOMAIN quests, new_assignee \in AssigneeInputs :
          DetailReassign(user, id, new_assignee) =>
              /\ DOMAIN quests' = DOMAIN quests
              /\ \A i \in DOMAIN quests \ {id} : quests'[i] = quests[i]
              /\ \A f \in FrameOfReassign : quests'[id][f] = quests[id][f]
              /\ quests'[id].assignee =
                    (IF new_assignee = "" THEN NoUser ELSE new_assignee)
              /\ nextId' = nextId]_vars

\* C23 witness: a recurring quest in progress has been handed to bob
C23_Witness ==
    /\ result.op = "assignee"
    /\ result.outcome = "ok"
    /\ result.id \in DOMAIN quests
    /\ quests[result.id].assignee = "bob"
    /\ quests[result.id].status = "In Progress"
    /\ quests[result.id].recurrence_type = "daily"
    /\ quests[result.id].due_date # NoDate

\* the number of quests in progress that are assigned to user
ActiveCount(qs, user) == Cardinality(ActiveOf(qs, user))

\* C24: the read of the active count and the writes of an accept are steps
\* of their own: a read that finds 3 or more rejects, a read that finds
\* fewer lets the session go on to its writes whatever the other session
\* does meanwhile; the count of a user passes 3 only by the write of a
\* session that has read before, at a moment when the count is 3 already;
\* each session adds one quest at most, so two sessions starting from 2
\* quests in progress reach 4 and no more.
C24_AcceptRace ==
    [][/\ \A s \in Sessions, id \in DOMAIN quests :
              RaceRead(s, id) =>
                  /\ quests' = quests /\ comments' = comments
                  /\ ActiveCount(quests, SessionUser(s)) >= 3 =>
                        (inflight' = inflight /\ result'.outcome = "limit")
                  /\ ActiveCount(quests, SessionUser(s)) < 3 =>
                        (inflight'[s].pc = "assign" /\ inflight'[s].id = id)
       /\ (ActiveCount(quests, "alice") <= 3 /\ ActiveCount(quests', "alice") > 3) =>
              /\ ActiveCount(quests, "alice") = 3
              /\ \E s \in Sessions :
                    /\ inflight[s].pc \in {"assign", "status"}
                    /\ inflight'[s].pc # inflight[s].pc
       /\ ActiveCount(quests', "alice") <= MAX_ACTIVE_QUESTS - 1 + Cardinality(Sessions)]_vars

\* C24 witness: both sessions have finished their accept and alice has 4
\* quests in progress
C24_Witness ==
    /\ \A s \in Sessions : inflight[s].pc = "idle"
    /\ ActiveCount(quests, "alice") = 4
    /\ result.op = "accept"
    /\ result.outcome = "ok"

\* the pairs of quests with the same parent and the same due date
Duplicates(qs) ==
    {pair \in Occurrences(qs) \X Occurrences(qs) :
        /\ pair[1] < pair[2]
        /\ qs[pair[1]].parent_quest_id = qs[pair[2]].parent_quest_id
        /\ qs[pair[1]].due_date = qs[pair[2]].due_date}

\* C25: the count query and create_quest of a run are steps of their own.  A
\* run whose count query finds a quest of the same parent and due date
\* creates nothing for that row; a run creates a second quest with the
\* parent and due date of an existing one exactly when that quest was
\* written between its count query and its create_quest; no other step
\* adds such a pair.  With two runs a state with such a pair is reached.
C25_SchedulerRace ==
    [][/\ \A s \in Sessions :
              (RunCheck(s) /\ inflight'[s].pc = "create") =>
                  CountOccurrences(quests, inflight'[s].parent_id,
                                   isoformat(inflight'[s].next_due)) = 0
       /\ \A s \in Sessions :
              RunCreate(s) =>
                  ((Duplicates(quests') # Duplicates(quests))
                      <=> CountOccurrences(quests, inflight[s].parent_id,
                                           isoformat(inflight[s].next_due)) > 0)
       /\ (Duplicates(quests') # Duplicates(quests)) =>
              \E s \in Sessions : inflight[s].pc = "create" /\ inflight'[s].pc = "clear"]_vars

\* C25 witness: both runs are over and two quests have the same parent and
\* the same due date
C25_Witness ==
    /\ \A s \in Sessions : inflight[s].pc = "idle"
    /\ result.op = "complete"
    /\ Duplicates(quests) # {}

\* C26 as stated: after any sequence of accept, status update and
\* reassignment, one at a time, no user has more than 3 quests in progress
\* assigned.
C26_NeverMoreThanThree ==
    \A user \in LimitAssignees : ActiveCount(quests, user) <= MAX_ACTIVE_QUESTS

\* C26 amended: with operations one at a time, an accept never raises the
\* number of quests in progress of its actor above 3, and a step that raises
\* the number of a user above 3 is a status update or a reassignment, which
\* read no count.
C26_OnlyAcceptIsCapped ==
    [][\A user \in LimitAssignees :
          /\ (result'.op \in AcceptOps /\ result'.user = user) =>
                \/ ActiveCount(quests', user) <= MAX_ACTIVE_QUESTS
                \/ ActiveCount(quests', user) = ActiveCount(quests, user)
          /\ (/\ ActiveCount(quests', user) > MAX_ACTIVE_QUESTS
              /\ ActiveCount(quests', user) > ActiveCount(quests, user)) =>
                /\ result'.op \in {"status", "assignee"}
                /\ result'.outcome = "ok"]_vars

\* C26 witness: a status update or a reassignment has left alice with 4
\* quests in progress
C26_Witness ==
    /\ result.op \in {"status", "assignee"}
    /\ result.outcome = "ok"
    /\ ActiveCount(quests, "alice") = MAX_ACTIVE_QUESTS + 1

\* the quests of the lineage of root that still carry a recurrence rule
RuleBearers(qs, root) ==
    {i \in DOMAIN qs : RootOf(qs, i) = root /\ qs[i].recurrence_type # "none"}

\* C27: with operations one at a time and no handler but the scheduler
\* writing recurrence_type, every lineage (a root and the quests whose parent
\* it is) has at most one quest whose recurrence type is not none, in every
\* state between operations.
C27_OneRuleBearerPerLineage ==
    \A root \in 1..(nextId - 1) : Cardinality(RuleBearers(quests, root)) <= 1

\* C27 witness: a lineage of three quests after two scheduler runs, the rule
\* on the newest one only
C27_Witness ==
    /\ DOMAIN quests = 1..3
    /\ quests[2].parent_quest_id = 1
    /\ quests[3].parent_quest_id = 1
    /\ RuleBearers(quests, 1) = {3}
    /\ result.op = "complete"

\* C28: for quests with a rule and no end date, after every completed
\* scheduler run no quest has status Done and a recurrence type other than
\* none, whatever completions and edits of due dates came before.
C28_NoDoneQuestKeepsRule ==
    [][(result'.op = "complete" /\ result'.outcome = "ok" /\ comments' # comments) =>
          \A i \in DOMAIN quests' :
              (quests'[i].status = "Done" /\ quests'[i].recurrence_end_date = NoDate)
                  => quests'[i].recurrence_type = "none"]_vars

\* q has been the source of a successor: its lineage has an occurrence
\* created after q
WasSource(qs, q) ==
    \E j \in Occurrences(qs) : j > q /\ RootOf(qs, j) = RootOf(qs, q)

\* the occurrences a step creates
NewOccurrences ==
    {n \in DOMAIN quests' \ DOMAIN quests : quests'[n].parent_quest_id # NoId}

\* the quests that a step leaves Done and without the rule they had, and that
\* had not been a source before
HandedOff ==
    {i \in DOMAIN quests \cap DOMAIN quests' :
        /\ ~WasSource(quests, i)
        /\ quests[i].recurrence_type # "none"
        /\ quests'[i].recurrence_type = "none"
        /\ quests'[i].status = "Done"}

\* C29: a quest is the source of one successor at most.  A quest that has
\* been a source has recurrence type none and keeps it, whatever status
\* updates and completions follow; completing it again creates nothing for
\* it; and every occurrence a step creates is paid for by a quest that had
\* not been a source and gives up its rule in that step.
C29_SourceOnce ==
    [][/\ \A q \in DOMAIN quests :
              WasSource(quests, q) =>
                  /\ quests[q].recurrence_type = "none"
                  /\ q \in DOMAIN quests' => quests'[q].recurrence_type = "none"
                  /\ \A user \in Users :
                        BoardComplete(user, q) =>
                            nextId' - nextId <= Cardinality(RecurringDone(quests) \ {q})
       /\ Cardinality(NewOccurrences) <= Cardinality(HandedOff)]_vars

\* C29 witness: quest 1, the source of quest 2, has been reopened and
\* completed again after the due date of quest 2 was changed, and there is
\* still no third quest
C29_Witness ==
    /\ result.op = "complete"
    /\ result.id = 1
    /\ result.outcome = "ok"
    /\ comments.id > ChainComments.id
    /\ DOMAIN quests = 1..2
    /\ quests[2].parent_quest_id = 1
    /\ quests[2].due_date # isoformat(1)
    /\ quests[1].status = "Done"

\* the fields a scheduler run leaves alone on every quest
KeptByRun == {"status", "assignee", "due_date", "title", "priority", "creator",
              "parent_quest_id"}

\* C30: a scheduler run only adds quests and clears the recurrence type of
\* Done quests.  Compared with storage as the run finds it (the completed
\* quest set to Done), every quest is still there after the run with the
\* status, assignee, due date, title, priority, creator and parent it had;
\* a quest that is not Done is not changed at all; a quest that is changed
\* differs only by a recurrence type of none; the quests added have the
\* ids handed out during the run.
C30_SchedulerFrame ==
    [][(result'.op = "complete" /\ comments' # comments) =>
          LET before == change_status(quests, result'.id, "Done") IN
          /\ \A i \in DOMAIN before :
                /\ i \in DOMAIN quests'
                /\ \A f \in KeptByRun : quests'[i][f] = before[i][f]
                /\ before[i].status # "Done" => quests'[i] = before[i]
                /\ quests'[i] # before[i] =>
                      quests'[i] = [before[i] EXCEPT !.recurrence_type = "none"]
          /\ DOMAIN quests' \ DOMAIN before = nextId..(nextId' - 1)]_vars

\* C30 witness: a run has created an occurrence of the completed quest and
\* cleared its rule, and a recurring quest in Backlog still has its rule
C30_Witness ==
    /\ result.op = "complete"
    /\ quests[result.id].recurrence_type = "none"
    /\ \E n \in Occurrences(quests) : quests[n].parent_quest_id = result.id
    /\ \E i \in DOMAIN quests :
          /\ quests[i].status = "Backlog"
          /\ quests[i].parent_quest_id = NoId
          /\ quests[i].recurrence_type = "daily"

====
